---- MODULE Spec2Model ----
(***************************************************************************)
(* A model of xycore: XYEntry / XYChain (append, verify, to_dict,          *)
(* from_dict), the hash helpers of crypto.py, redact_state, sign_entry,    *)
(* verify_signature, BalanceProof (transfer, to_dict, verify_proof),       *)
(* LocalStorage (save, load, list_chains, delete, exists) and appends      *)
(* made by several threads.                                                *)
(*                                                                         *)
(* Conventions.                                                            *)
(*   - Python str values are TLA+ strings; f-strings are built with \o.    *)
(*   - hashlib.sha256(...).hexdigest() is modelled collision-free: the     *)
(*     digest of s is the token "sha256<s>".  No field value of the model  *)
(*     is a fragment of such a token.                                      *)
(*   - A timestamp n stands for the Python float n.0, formatted "n.0".     *)
(*   - A State (a JSON-like tree) is a tagged record: [null |-> TRUE],     *)
(*     [str |-> s], [num |-> n], [map |-> f], [list |-> seq]; Python's     *)
(*     None for x_state / y_state is Null.                                 *)
(*   - Python's None for an optional str field is the string None.         *)
(*   - A call either returns a value, Return(v), or raises, Raise(name).   *)
(*   - A value json cannot encode (a datetime, say) is NotJson.            *)
(*   - Every str of the model is text UTF-8 can encode.                    *)
(*   - An amount of money n stands for the float n * 1e-9, so that          *)
(*     round(v, 8) is the nearest multiple of 10; no amount of the model    *)
(*     lies halfway between two multiples.                                  *)
(***************************************************************************)
EXTENDS Integers, Sequences, FiniteSets, TLC

VARIABLES
    chain,      \* the XYChain object: id, name, entries, configuration
    orig,       \* the entries as they were before the chain was tampered with
    tamper,     \* what has been done to the entries behind the chain's back
    last,       \* the last operation called on the chain and what it returned
    checkpoints, \* the calls the checkpoint callback has received
    backend,    \* the Ed25519 package this runtime can import, or None
    files,      \* the LocalStorage directory: file name -> what the file holds
    saved,      \* chain id -> the chain as it was at its last completed save
    threads     \* the appends in progress: what each has read so far

vars == <<chain, orig, tamper, last, checkpoints, backend, files, saved, threads>>

----------------------------------------------------------------------------
(* Bounds *)

MaxLen == 3

\* The deepest nesting of the states given to redact_state
MaxDepth == 52

----------------------------------------------------------------------------
(* Values *)

None == "None"
GENESIS == "GENESIS"
REDACTED == "[REDACTED]"

Null == [null |-> TRUE]
Str(s) == [str |-> s]
Num(n) == [num |-> n]
Map(f) == [map |-> f]
List(q) == [list |-> q]
EmptyMap == Map(<<>>)

\* The two ways a call ends
Return(v) == [value |-> v]
Raise(name) == [raised |-> name]
Raised(r) == "raised" \in DOMAIN r

IsMap(v) == DOMAIN v = {"map"}
IsList(v) == DOMAIN v = {"list"}
IsStr(v) == DOMAIN v = {"str"}
IsNum(v) == DOMAIN v = {"num"}

\* Every key a State of the model uses, in the order sort_keys=True gives.
KeyOrder == <<"API_KEY", "alice", "bob", "n", "password", "user">>

----------------------------------------------------------------------------
(* crypto.py *)

Sha256Hex(s) == "sha256<" \o s \o ">"

RECURSIVE CanonicalJson(_)
RECURSIVE JsonItems(_, _)
RECURSIVE JsonElems(_, _)

\* sort_keys=True: the keys of map f in the order json.dumps writes them
SortedKeys(f) == SelectSeq(KeyOrder, LAMBDA k : k \in DOMAIN f)

\* The ,"k":v members of map f from its i-th key on, and the closing brace
JsonItems(f, i) ==
    IF i > Len(SortedKeys(f)) THEN "}"
    ELSE ",\"" \o SortedKeys(f)[i] \o "\":" \o CanonicalJson(f[SortedKeys(f)[i]])
         \o JsonItems(f, i + 1)

\* The ,v items of list q from the i-th on, and the closing bracket
JsonElems(q, i) ==
    IF i > Len(q) THEN "]"
    ELSE "," \o CanonicalJson(q[i]) \o JsonElems(q, i + 1)

\* json.dumps(state, sort_keys=True, separators=(",", ":")).  The first
\* member of a map and the first item of a list are written here, and the
\* cases are tested side by side: every expression entered on the way down
\* costs TLC stack, and states nest 50 levels and more.
CanonicalJson(v) ==
    CASE DOMAIN v = {"map"} /\ DOMAIN v.map # {} ->
             ("{\"" \o SortedKeys(v.map)[1] \o "\":")
             \o CanonicalJson(v.map[SortedKeys(v.map)[1]]) \o JsonItems(v.map, 2)
      [] DOMAIN v = {"list"} /\ DOMAIN v.list # {} ->
             "[" \o CanonicalJson(v.list[1]) \o JsonElems(v.list, 2)
      [] DOMAIN v = {"map"} -> "{}"
      [] DOMAIN v = {"list"} -> "[]"
      [] DOMAIN v = {"str"} -> "\"" \o v.str \o "\""
      [] DOMAIN v = {"num"} -> ToString(v.num)
      [] OTHER -> "null"

hash_state(state) == Sha256Hex(CanonicalJson(state))

\* f"{timestamp}" of a float
FormatTimestamp(ts) == ToString(ts) \o ".0"

\* Mutant: the timestamp is left out of the hashed text
compute_xy_NoTimestamp(x, operation, y, timestamp) ==
    "xy_" \o Sha256Hex(x \o ":" \o operation \o ":" \o y)

compute_xy(x, operation, y, timestamp) ==
    "xy_" \o Sha256Hex(x \o ":" \o operation \o ":" \o y \o ":" \o FormatTimestamp(timestamp))

\* Mutant: only the shape of xy is looked at, the proof is not recomputed
verify_entry_ShapeOnly(entry) == entry.xy # ""

verify_entry(entry) ==
    entry.xy = compute_xy(entry.x, entry.operation, entry.y, entry.timestamp)

RECURSIVE VerifyFrom_NoLink(_, _)
\* Mutant: the link of an entry to its predecessor is not checked
VerifyFrom_NoLink(entries, i) ==
    IF i > Len(entries) THEN <<TRUE, None>>
    ELSE IF ~verify_entry(entries[i]) THEN <<FALSE, i - 1>>
    ELSE VerifyFrom_NoLink(entries, i + 1)

RECURSIVE VerifyFrom_LastBreak(_, _)
\* Mutant: the scan does not stop at the first break and reports the last one
VerifyFrom_LastBreak(entries, i) ==
    IF i > Len(entries) THEN <<TRUE, None>>
    ELSE LET bad == \/ ~verify_entry(entries[i])
                    \/ i = 1 /\ entries[i].x # "GENESIS"
                    \/ i > 1 /\ entries[i].x # entries[i - 1].y
             rest == VerifyFrom_LastBreak(entries, i + 1)
         IN  IF rest[1] = FALSE THEN rest
             ELSE IF bad THEN <<FALSE, i - 1>> ELSE rest

RECURSIVE VerifyFrom(_, _)
\* The loop of verify_chain from position i (1-based here, i - 1 in Python).
VerifyFrom(entries, i) ==
    IF i > Len(entries) THEN <<TRUE, None>>
    ELSE IF ~verify_entry(entries[i]) THEN <<FALSE, i - 1>>
    ELSE IF i = 1 /\ entries[i].x # GENESIS THEN <<FALSE, i - 1>>
    ELSE IF i > 1 /\ entries[i].x # entries[i - 1].y THEN <<FALSE, i - 1>>
    ELSE VerifyFrom(entries, i + 1)

\* Mutant: the scan starts at the second entry
verify_chain_SkipFirst(entries) == VerifyFrom(entries, 2)

\* Mutant: a chain without entries is refused
verify_chain_RejectsEmpty(entries) ==
    IF entries = <<>> THEN <<FALSE, 0>> ELSE VerifyFrom(entries, 1)

verify_chain(entries) == VerifyFrom(entries, 1)

----------------------------------------------------------------------------
(* redact.py *)

\* _is_secret_key on the keys of KeyOrder: "password" matches r"password",
\* "API_KEY" matches r"api[_-]?key" with re.IGNORECASE.
_is_secret_key(k) == k \in {"API_KEY", "password"}

\* _redact_value on the strings of the model: pattern.sub(REDACTED, value)
\* for each of SECRET_VALUE_PATTERNS in turn.
_redact_value(s) ==
    CASE s = "sk_live_abc" -> REDACTED
      [] s = "key sk_live_abc" -> "key " \o REDACTED
      [] OTHER -> s

\* The deepest level at which redact_state still looks at a value
RedactDepthGuard == 50

RECURSIVE redact_state_SkipsLists(_, _)
\* Mutant: the items of a list are not visited
redact_state_SkipsLists(state, depth) ==
    IF depth > RedactDepthGuard THEN state
    ELSE IF DOMAIN state = {"map"}
         THEN [map |-> [k \in DOMAIN state.map |->
                          IF _is_secret_key(k) THEN [str |-> REDACTED]
                          ELSE redact_state_SkipsLists(state.map[k], depth + 1)]]
    ELSE IF DOMAIN state = {"str"} THEN [str |-> _redact_value(state.str)]
    ELSE state

RECURSIVE redact_state_StringsOnly(_, _)
\* Mutant: under a secret-named key only a string is replaced
redact_state_StringsOnly(state, depth) ==
    IF depth > RedactDepthGuard THEN state
    ELSE IF DOMAIN state = {"map"}
         THEN [map |-> [k \in DOMAIN state.map |->
                          IF _is_secret_key(k) /\ DOMAIN state.map[k] = {"str"}
                          THEN [str |-> REDACTED]
                          ELSE redact_state_StringsOnly(state.map[k], depth + 1)]]
    ELSE IF DOMAIN state = {"list"}
         THEN [list |-> [i \in DOMAIN state.list |->
                           redact_state_StringsOnly(state.list[i], depth + 1)]]
    ELSE IF DOMAIN state = {"str"} THEN [str |-> _redact_value(state.str)]
    ELSE state

RECURSIVE redact_state(_, _)
\* redact_state(state, _depth).  The tagged records are written out, not
\* built with Map, List and Str: TLC evaluates an operator's arguments
\* lazily, and at 50 levels of recursion that exhausts its stack.
redact_state(state, depth) ==
    IF depth > RedactDepthGuard THEN state
    ELSE IF DOMAIN state = {"map"}
         THEN [map |-> [k \in DOMAIN state.map |->
                          IF _is_secret_key(k) THEN [str |-> REDACTED]
                          ELSE redact_state(state.map[k], depth + 1)]]
    ELSE IF DOMAIN state = {"list"}
         THEN [list |-> [i \in DOMAIN state.list |->
                           redact_state(state.list[i], depth + 1)]]
    ELSE IF DOMAIN state = {"str"} THEN [str |-> _redact_value(state.str)]
    ELSE state

----------------------------------------------------------------------------
(* signature.py *)

\* The packages _get_backend tries to import, PyNaCl first
Backends == {"nacl", "cryptography"}

\* _get_backend: the name of the package this runtime can import, or None
_get_backend == backend

_require_backend ==
    IF _get_backend = None THEN Raise("ImportError") ELSE Return(_get_backend)

\* The private keys generate_keypair can return: 32-byte seeds
Seeds == {"k1", "k2"}

\* A private_key argument that is not 32 bytes long
SHORT_KEY == "short"

\* bytes(sk.verify_key): the public key of a private key
PublicKeyOf(private_key) == "pub(" \o private_key \o ")"

\* sk.sign(message).signature: Ed25519 is deterministic in key and message
Ed25519Sign(private_key, message) == "sig(" \o private_key \o "," \o message \o ")"

b64encode(bytes) == "b64:" \o bytes

SigningMessage(entry) ==
    entry.x \o ":" \o entry.operation \o ":" \o entry.y \o ":" \o entry.xy

\* Mutant: the signed message leaves the proof hash out
sign_entry_WithoutXY(entry, private_key, signer_id) ==
    IF Raised(_require_backend) THEN _require_backend
    ELSE IF private_key \notin Seeds THEN Raise("ValueError")
    ELSE Return([entry EXCEPT
            !.signature = b64encode(Ed25519Sign(private_key,
                              entry.x \o ":" \o entry.operation \o ":" \o entry.y)),
            !.public_key = b64encode(PublicKeyOf(private_key)),
            !.signer_id = IF signer_id # None THEN signer_id ELSE @])

\* sign_entry: the entry it returns, or the error it raises.  SigningKey(k)
\* and Ed25519PrivateKey.from_private_bytes(k) reject a k that is not a seed.
sign_entry(entry, private_key, signer_id) ==
    IF Raised(_require_backend) THEN _require_backend
    ELSE IF private_key \notin Seeds THEN Raise("ValueError")
    ELSE Return([entry EXCEPT
            !.signature = b64encode(Ed25519Sign(private_key, SigningMessage(entry))),
            !.public_key = b64encode(PublicKeyOf(private_key)),
            !.signer_id = IF signer_id # None THEN signer_id ELSE @])

\* The try block of verify_signature runs to its return True: both texts
\* decode, the public key bytes are a key, and the signature is the one
\* that key's owner makes for the message.  Every other stored text makes
\* b64decode, the key constructor or verify raise.
TryVerify(entry, message) ==
    \E k \in Seeds :
        /\ entry.public_key = b64encode(PublicKeyOf(k))
        /\ entry.signature = b64encode(Ed25519Sign(k, message))

\* Mutant: no except clause around the try block
verify_signature_NoExcept(entry) ==
    IF _get_backend = None THEN Raise("ImportError")
    ELSE IF entry.signature = None \/ entry.public_key = None THEN Return(FALSE)
    ELSE IF TryVerify(entry, SigningMessage(entry)) THEN Return(TRUE)
    ELSE Raise("Exception")

\* verify_signature, in the order of its statements
verify_signature(entry) ==
    IF _get_backend = None THEN Raise("ImportError")
    ELSE IF entry.signature = None \/ entry.public_key = None THEN Return(FALSE)
    ELSE IF TryVerify(entry, SigningMessage(entry)) THEN Return(TRUE)
    ELSE Return(FALSE)

----------------------------------------------------------------------------
(* entry.py *)

\* Mutant: x and y are passed to compute_xy in the wrong order
XYEntry_create_Swapped(index, operation, x, y, x_state, y_state, status, metadata, timestamp) ==
    [index |-> index, timestamp |-> timestamp, operation |-> operation,
     x |-> x, y |-> y, xy |-> compute_xy(y, operation, x, timestamp),
     x_state |-> x_state, y_state |-> y_state, status |-> status, verified |-> TRUE,
     metadata |-> IF metadata = [null |-> TRUE] THEN [map |-> <<>>] ELSE metadata,
     signature |-> "None", signer_id |-> "None", public_key |-> "None"]

\* XYEntry.create; the timestamp is always supplied by XYChain.append
XYEntry_create(index, operation, x, y, x_state, y_state, status, metadata, timestamp) ==
    [index |-> index,
     timestamp |-> timestamp,
     operation |-> operation,
     x |-> x,
     y |-> y,
     xy |-> compute_xy(x, operation, y, timestamp),
     x_state |-> x_state,
     y_state |-> y_state,
     status |-> status,
     verified |-> TRUE,
     metadata |-> IF metadata = Null \/ metadata = EmptyMap THEN EmptyMap ELSE metadata,  \* metadata or {}
     signature |-> None,
     signer_id |-> None,
     public_key |-> None]

\* data.get(key, default)
Get(data, key, default) == IF key \in DOMAIN data THEN data[key] ELSE default

\* d[key] = value, only when the value is not None
Optional(key, value, none) == IF value # none THEN key :> value ELSE <<>>

XYEntry_to_dict(e) ==
    [index |-> e.index,
     timestamp |-> e.timestamp,
     operation |-> e.operation,
     x |-> e.x,
     y |-> e.y,
     xy |-> e.xy,
     status |-> e.status,
     verified |-> e.verified,
     metadata |-> e.metadata]
    @@ Optional("x_state", e.x_state, Null)
    @@ Optional("y_state", e.y_state, Null)
    @@ Optional("signature", e.signature, None)
    @@ Optional("signer_id", e.signer_id, None)
    @@ Optional("public_key", e.public_key, None)

\* Mutant: the proof hash is recomputed instead of restored
XYEntry_from_dict_Recomputed(data) ==
    [index |-> data.index, timestamp |-> data.timestamp, operation |-> data.operation,
     x |-> data.x, y |-> data.y,
     xy |-> compute_xy(data.x, data.operation, data.y, data.timestamp),
     x_state |-> Get(data, "x_state", Null), y_state |-> Get(data, "y_state", Null),
     status |-> Get(data, "status", "success"), verified |-> Get(data, "verified", TRUE),
     metadata |-> Get(data, "metadata", EmptyMap),
     signature |-> Get(data, "signature", None), signer_id |-> Get(data, "signer_id", None),
     public_key |-> Get(data, "public_key", None)]

XYEntry_from_dict(data) ==
    [index |-> data.index,
     timestamp |-> data.timestamp,
     operation |-> data.operation,
     x |-> data.x,
     y |-> data.y,
     xy |-> data.xy,
     x_state |-> Get(data, "x_state", Null),
     y_state |-> Get(data, "y_state", Null),
     status |-> Get(data, "status", "success"),
     verified |-> Get(data, "verified", TRUE),
     metadata |-> Get(data, "metadata", EmptyMap),
     signature |-> Get(data, "signature", None),
     signer_id |-> Get(data, "signer_id", None),
     public_key |-> Get(data, "public_key", None)]

----------------------------------------------------------------------------
(* chain.py *)

length(c) == Len(c.entries)

head(c) == IF c.entries = <<>> THEN GENESIS ELSE c.entries[Len(c.entries)].y

\* Mutant: the proof hash of the last entry
root_OfLast(c) == IF c.entries = <<>> THEN None ELSE c.entries[Len(c.entries)].xy

root(c) == IF c.entries = <<>> THEN None ELSE c.entries[1].xy

\* Mutant: the previous entry's x is taken
PrevY_TakesX(c) == IF c.entries # <<>> THEN c.entries[Len(c.entries)].x ELSE GENESIS

\* x of the next entry: the previous entry's y, or GENESIS
PrevY(c) == IF c.entries # <<>> THEN c.entries[Len(c.entries)].y ELSE GENESIS

\* Mutant: indices count from one
NextIndex_OneBased(c) == Len(c.entries) + 1

\* index of the next entry
NextIndex(c) == Len(c.entries)

\* Mutant: the state is hashed as the caller gave it, and redacted for
\* storage only
NewEntry_HashesUnredacted(c, operation, x_state, y_state, status, metadata, ts) ==
    LET xs == IF c.auto_redact /\ x_state # Null THEN redact_state(x_state, 0) ELSE x_state
        ys == IF c.auto_redact /\ y_state # Null THEN redact_state(y_state, 0) ELSE y_state
        y_hash == IF y_state # Null THEN hash_state(y_state) ELSE hash_state(EmptyMap)
    IN  XYEntry_create(NextIndex(c), operation, PrevY(c), y_hash, xs, ys, status, metadata, ts)

\* The entry XYChain.append creates, before it is signed.  ts is the
\* timestamp argument, or what time.time() returned when it was None.
NewEntry(c, operation, x_state, y_state, status, metadata, ts) ==
    LET xs == IF c.auto_redact /\ x_state # Null THEN redact_state(x_state, 0) ELSE x_state
        ys == IF c.auto_redact /\ y_state # Null THEN redact_state(y_state, 0) ELSE y_state
        x == PrevY(c)
        y_hash == IF ys # Null THEN hash_state(ys) ELSE hash_state(EmptyMap)
        index == NextIndex(c)
    IN  XYEntry_create(index, operation, x, y_hash, xs, ys, status, metadata, ts)

\* What XYChain.append has when it reaches self.entries.append(entry): the
\* entry it built, or the error sign_entry raised
AppendEntry(c, operation, x_state, y_state, status, metadata, ts, private_key, signer_id) ==
    LET entry == NewEntry(c, operation, x_state, y_state, status, metadata, ts)
    IN  IF private_key # None THEN sign_entry(entry, private_key, signer_id) ELSE Return(entry)

\* Mutant: the entry is in the list before it is signed, so that a failed
\* signing leaves the unsigned entry behind
EntriesAfterAppend_BeforeSigning(c, entry, built) ==
    IF Raised(built) THEN Append(c.entries, entry) ELSE Append(c.entries, built.value)

\* Mutant: the new entry is put in front of the old ones
EntriesAfterAppend_Prepends(c, entry, built) ==
    IF Raised(built) THEN c.entries ELSE <<built.value>> \o c.entries

\* self.entries.append(entry) is reached only when nothing was raised before
\* it; entry is the entry as created, built what signing made of it
EntriesAfterAppend(c, entry, built) ==
    IF Raised(built) THEN c.entries ELSE Append(c.entries, built.value)

CheckpointLabel(n) == "auto-checkpoint-" \o ToString(n)

\* Mutant: the interval is tested against the length before the append
CheckpointDue_BeforeAppend(c) == (length(c) - 1) % c.checkpoint_interval = 0

\* self.length % self.checkpoint_interval == 0, for an interval that is not 0
CheckpointDue(c) == length(c) % c.checkpoint_interval = 0

\* What a checkpoint callback can do when it is called
CallbackOutcomes == {"returns None", "returns a value", "raises"}

\* Mutant: the checkpoint step guarded, its errors swallowed
AutoCheckpoint_Guarded(c, outcome) ==
    IF c.auto_checkpoint /\ c.checkpoint_callback # None
          /\ c.checkpoint_interval # 0 /\ CheckpointDue(c)
    THEN [raised |-> None,
          calls |-> <<[label |-> CheckpointLabel(length(c)), length |-> length(c)]>>]
    ELSE [raised |-> None, calls |-> <<>>]

\* The auto-checkpoint step of append on the chain c that holds the new
\* entry: the calls it makes to the callback, and the error that leaves it
AutoCheckpoint(c, outcome) ==
    IF c.auto_checkpoint /\ c.checkpoint_callback # None
    THEN IF c.checkpoint_interval = 0
         THEN [raised |-> "ZeroDivisionError", calls |-> <<>>]
         ELSE IF CheckpointDue(c)
              THEN [raised |-> IF outcome = "raises" THEN "CallbackError" ELSE None,
                    calls |-> <<[label |-> CheckpointLabel(length(c)),
                                 length |-> length(c)]>>]
              ELSE [raised |-> None, calls |-> <<>>]
    ELSE [raised |-> None, calls |-> <<>>]

\* chain.append(...); outcome is what the callback does if it is called
XYChain_append(operation, x_state, y_state, status, metadata, ts, private_key, signer_id, outcome) ==
    /\ Len(chain.entries) < MaxLen
    /\ LET entry == NewEntry(chain, operation, x_state, y_state, status, metadata, ts)
           built == AppendEntry(chain, operation, x_state, y_state, status, metadata,
                                ts, private_key, signer_id)
           args == [operation |-> operation, x_state |-> x_state, y_state |-> y_state,
                    private_key |-> private_key, signer_id |-> signer_id]
       IN  IF Raised(built)
           THEN /\ chain' = [chain EXCEPT !.entries = EntriesAfterAppend(chain, entry, built)]
                /\ checkpoints' = checkpoints
                /\ last' = [op |-> "append", before |-> chain, args |-> args,
                            raised |-> built.raised, returned |-> None, calls |-> <<>>,
                               outcome |-> outcome]
           ELSE LET after == [chain EXCEPT !.entries = EntriesAfterAppend(chain, entry, built)]
                    cp == AutoCheckpoint(after, outcome)
                IN  /\ chain' = after
                    /\ checkpoints' = checkpoints \o cp.calls
                    /\ last' = [op |-> "append", before |-> chain, args |-> args,
                                raised |-> cp.raised,
                                returned |-> IF cp.raised = None THEN built.value ELSE None,
                                calls |-> cp.calls,
                                   outcome |-> outcome]
    /\ orig' = IF tamper.kind = "none" THEN chain'.entries ELSE orig
    /\ UNCHANGED <<tamper, backend, files, saved, threads>>

XYChain_verify(c) == verify_chain(c.entries)

RECURSIVE VerifySignaturesFrom_CountsUnsigned(_, _)
\* Mutant: an entry without a signature is not skipped
VerifySignaturesFrom_CountsUnsigned(entries, i) ==
    IF i > Len(entries) THEN Return(<<TRUE, None>>)
    ELSE LET r == verify_signature(entries[i])
         IN  IF Raised(r) THEN r
             ELSE IF ~r.value THEN Return(<<FALSE, i - 1>>)
             ELSE VerifySignaturesFrom_CountsUnsigned(entries, i + 1)

\* The loop of XYChain.verify_signatures from position i on (i counts from 1)
RECURSIVE VerifySignaturesFrom_ByPublicKey(_, _)
\* Mutant: an entry counts as signed when its public_key is set
VerifySignaturesFrom_ByPublicKey(entries, i) ==
    IF i > Len(entries) THEN Return(<<TRUE, None>>)
    ELSE IF entries[i].public_key # None
         THEN LET r == verify_signature(entries[i])
              IN  IF Raised(r) THEN r
                  ELSE IF ~r.value THEN Return(<<FALSE, i - 1>>)
                  ELSE VerifySignaturesFrom_ByPublicKey(entries, i + 1)
         ELSE VerifySignaturesFrom_ByPublicKey(entries, i + 1)

RECURSIVE VerifySignaturesFrom(_, _)
VerifySignaturesFrom(entries, i) ==
    IF i > Len(entries) THEN Return(<<TRUE, None>>)
    ELSE IF entries[i].signature # None
         THEN LET r == verify_signature(entries[i])
              IN  IF Raised(r) THEN r
                  ELSE IF ~r.value THEN Return(<<FALSE, i - 1>>)
                  ELSE VerifySignaturesFrom(entries, i + 1)
    ELSE VerifySignaturesFrom(entries, i + 1)

XYChain_verify_signatures(c) == VerifySignaturesFrom(c.entries, 1)

XYChain_to_dict(c) ==
    [id |-> c.id,
     name |-> c.name,
     entries |-> [i \in DOMAIN c.entries |-> XYEntry_to_dict(c.entries[i])],
     auto_redact |-> c.auto_redact,
     auto_checkpoint |-> c.auto_checkpoint,
     checkpoint_interval |-> c.checkpoint_interval,
     length |-> length(c),
     head |-> head(c),
     root |-> root(c)]

XYChain_from_dict(data) ==
    [id |-> data.id,
     name |-> data.name,
     entries |-> LET es == Get(data, "entries", <<>>)
                 IN  [i \in DOMAIN es |-> XYEntry_from_dict(es[i])],
     auto_redact |-> Get(data, "auto_redact", TRUE),
     auto_checkpoint |-> Get(data, "auto_checkpoint", FALSE),
     checkpoint_interval |-> Get(data, "checkpoint_interval", 20),
     checkpoint_callback |-> None]

\* chain = XYChain.from_dict(chain.to_dict())
RoundTrip ==
    /\ chain' = XYChain_from_dict(XYChain_to_dict(chain))
    /\ last' = [op |-> "from_dict", before |-> chain]
    /\ UNCHANGED <<orig, tamper, checkpoints, backend, files, saved, threads>>

----------------------------------------------------------------------------
(* storage.py *)
(* A file holds either a complete JSON document, written here as the dict   *)
(* json.load reads back from it, or the cut-off text a json.dump that raised *)
(* left behind.  str keys, str, int and bool values, None, dicts and lists   *)
(* come back from JSON text as they went in.                                 *)

\* A value json.dump has no encoding for (a datetime, a set, bytes ...)
NotJson == [obj |-> "datetime"]

RECURSIVE JsonSerializable(_)
\* Whether json.dump encodes the value or raises TypeError
JsonSerializable(v) ==
    IF "obj" \in DOMAIN v THEN FALSE
    ELSE IF DOMAIN v = {"map"} THEN \A k \in DOMAIN v.map : JsonSerializable(v.map[k])
    ELSE IF DOMAIN v = {"list"} THEN \A i \in DOMAIN v.list : JsonSerializable(v.list[i])
    ELSE TRUE

\* The same for the dict of a chain: the states and the metadata of its
\* entries are the values the caller chose
DictSerializable(data) ==
    \A i \in DOMAIN data.entries :
        /\ JsonSerializable(Get(data.entries[i], "x_state", Null))
        /\ JsonSerializable(Get(data.entries[i], "y_state", Null))
        /\ JsonSerializable(data.entries[i].metadata)

Document(data) == [text |-> data]

\* What open(path, "w") and a json.dump that raised leave in the file
Truncated == [partial |-> TRUE]

\* LocalStorage._chain_path, relative to the directory
_chain_path(chain_id) == chain_id \o ".json"

\* sorted(self.directory.glob("*.json")) for the files of the model
PathOrder == <<"c1.json", "c2.json">>

\* LocalStorage.save: the directory after the call, and the call's outcome
LocalStorage_save(fs, c) ==
    LET path == _chain_path(c.id)
        data == XYChain_to_dict(c)
    IN  IF DictSerializable(data)
        THEN [files |-> (path :> Document(data)) @@ fs, outcome |-> Return(path)]
        ELSE [files |-> (path :> Truncated) @@ fs, outcome |-> Raise("TypeError")]

\* LocalStorage.load
LocalStorage_load(fs, chain_id) ==
    LET path == _chain_path(chain_id)
    IN  IF path \notin DOMAIN fs THEN Raise("FileNotFoundError")
        ELSE IF fs[path] = Truncated THEN Raise("JSONDecodeError")
        ELSE Return(XYChain_from_dict(fs[path].text))

\* The summary LocalStorage.list_chains builds of one file
Summary(fs, path) ==
    [id |-> fs[path].text.id, name |-> fs[path].text.name,
     length |-> Get(fs[path].text, "length", 0), path |-> path]

RECURSIVE ListFrom(_, _)
ListFrom(fs, i) ==
    IF i > Len(PathOrder) THEN <<>>
    ELSE IF PathOrder[i] \notin DOMAIN fs \/ fs[PathOrder[i]] = Truncated
         THEN ListFrom(fs, i + 1)
         ELSE <<Summary(fs, PathOrder[i])>> \o ListFrom(fs, i + 1)

\* LocalStorage.list_chains: files json.load cannot read are passed over
LocalStorage_list_chains(fs) == ListFrom(fs, 1)

\* LocalStorage.delete: the directory after the call, and what it returns
LocalStorage_delete(fs, chain_id) ==
    LET path == _chain_path(chain_id)
    IN  IF path \in DOMAIN fs
        THEN [files |-> [q \in DOMAIN fs \ {path} |-> fs[q]], returned |-> TRUE]
        ELSE [files |-> fs, returned |-> FALSE]

\* LocalStorage.exists
LocalStorage_exists(fs, chain_id) == _chain_path(chain_id) \in DOMAIN fs

----------------------------------------------------------------------------
(* balance.py *)

\* round(v, 8)
Round8(v) == IF v % 10 < 5 THEN v - (v % 10) ELSE v - (v % 10) + 10

\* str(v) for a rounded float v: one text for each value
StrFloat(v) == ToString(v) \o "e-09"

\* BalanceProof._normalize
_normalize(balances) ==
    Map([k \in DOMAIN balances |-> Str(StrFloat(Round8(balances[k])))])

\* The dataclass constructor with __post_init__
BalanceProof(before, after, amount, sender, recipient, timestamp, memo) ==
    LET x == hash_state(_normalize(before))
        y == hash_state(_normalize(after))
    IN  [before |-> before, after |-> after, amount |-> amount, sender |-> sender,
         recipient |-> recipient, timestamp |-> timestamp, memo |-> memo,
         x |-> x, y |-> y, xy |-> compute_xy(x, "transfer", y, timestamp)]

\* The dict literal {sender: a, recipient: b}: of two equal keys the later
\* one wins
PairDict(sender, a, recipient, b) == (recipient :> b) @@ (sender :> a)

\* BalanceProof.transfer; timestamp is Null for None, now is what
\* time.time() returns
transfer(balances, sender, recipient, amount, memo, timestamp, now) ==
    IF sender \notin DOMAIN balances THEN Raise("KeyError")
    ELSE LET bs == IF recipient \notin DOMAIN balances
                   THEN (recipient :> 0) @@ balances
                   ELSE balances
         IN  IF amount <= 0 THEN Raise("ValueError")
             ELSE IF bs[sender] < amount THEN Raise("ValueError")
             ELSE LET before == PairDict(sender, bs[sender], recipient, bs[recipient])
                      after == PairDict(sender, Round8(bs[sender] - amount),
                                        recipient, Round8(bs[recipient] + amount))
                      ts == IF timestamp = Null \/ timestamp = Num(0)
                            THEN now ELSE timestamp.num
                  IN  Return(BalanceProof(before, after, amount, sender, recipient, ts, memo))

\* The caller's balances object after transfer, had line 93 written the
\* recipient into it
CallerBalances_InPlace(balances, sender, recipient) ==
    IF sender \in DOMAIN balances /\ recipient \notin DOMAIN balances
    THEN (recipient :> 0) @@ balances
    ELSE balances

\* The caller's balances object after transfer: line 93 binds the local
\* name to a new dict, and nothing else assigns into balances
CallerBalances(balances, sender, recipient) == balances

\* self.after.get(party, 0)
GetOr0(d, party) == IF party \in DOMAIN d THEN d[party] ELSE 0

delta(proof) ==
    [party \in DOMAIN proof.before \cup DOMAIN proof.after |->
        Round8(GetOr0(proof.after, party) - GetOr0(proof.before, party))]

RECURSIVE SumValues(_)
\* sum(d.values())
SumValues(d) ==
    IF DOMAIN d = {} THEN 0
    ELSE LET k == CHOOSE k \in DOMAIN d : TRUE
         IN  d[k] + SumValues([j \in DOMAIN d \ {k} |-> d[j]])

balanced(proof) == Round8(SumValues(delta(proof))) = 0

\* BalanceProof.valid: the stored x, y, xy against the recomputed ones
valid(proof) ==
    LET expected_x == hash_state(_normalize(proof.before))
        expected_y == hash_state(_normalize(proof.after))
        expected_xy == compute_xy(expected_x, "transfer", expected_y, proof.timestamp)
    IN  /\ proof.x = expected_x
        /\ proof.y = expected_y
        /\ proof.xy = expected_xy

\* BalanceProof.to_dict
BalanceProof_to_dict(proof) ==
    [before |-> proof.before, after |-> proof.after, amount |-> proof.amount,
     sender |-> proof.sender, recipient |-> proof.recipient,
     timestamp |-> proof.timestamp, memo |-> proof.memo,
     x |-> proof.x, y |-> proof.y, xy |-> proof.xy,
     valid |-> valid(proof), balanced |-> balanced(proof)]

\* BalanceProof.from_dict: the constructor gets before, after, amount,
\* sender, recipient, timestamp and memo; x, y and xy of the dict are not read
BalanceProof_from_dict(data) ==
    BalanceProof(data.before, data.after, data.amount, data.sender,
                 data.recipient, data.timestamp, data.memo)

\* BalanceProof.verify_proof
verify_proof(proof_dict) ==
    LET proof == BalanceProof_from_dict(proof_dict)
    IN  valid(proof) /\ balanced(proof)

----------------------------------------------------------------------------
(* Tampering: the direct mutation of stored entries the tests use.  One  *)
(* act of tampering is made on a chain; tamper records which.           *)

DEADBEEF == "deadbeefdeadbeef"
BOGUS_XY == "xy_0000"
NOT_BASE64 == "not-valid-base64!!!"

\* The digests and proof hashes the entries hold
StoredStrings(entries) ==
    UNION {{entries[i].x, entries[i].y, entries[i].xy} : i \in DOMAIN entries}

FieldValues(f, entries) ==
    CASE f \in {"x", "y"} -> StoredStrings(entries) \cup {DEADBEEF, GENESIS}
      [] f = "xy" -> {entries[i].xy : i \in DOMAIN entries} \cup {BOGUS_XY}
      [] f = "operation" -> {"op_0", "HACKED"}
      [] f = "timestamp" -> {0, 1}
      [] f = "index" -> 0 .. 1
      [] f = "status" -> {"success", "failed"}
      [] f = "verified" -> BOOLEAN
      [] f = "metadata" -> {EmptyMap, Map([user |-> Str("eve")])}
      [] f \in {"x_state", "y_state"} -> {Null, Map([n |-> Num(2)])}
      [] f = "signature" -> {entries[i].signature : i \in DOMAIN entries}
                              \cup {None, NOT_BASE64, b64encode("corrupted")}
      [] f = "public_key" -> {None, NOT_BASE64, b64encode(PublicKeyOf("k2")),
                              b64encode("truncated")}
      [] f = "signer_id" -> {None, "mallory"}

ProofFields == {"x", "operation", "y", "timestamp", "xy"}
SignedFields == {"x", "operation", "y", "xy"}
SignatureFields == {"signature", "public_key", "signer_id"}
OtherFields == {"index", "status", "metadata", "x_state", "y_state", "verified"}

\* chain.entries[k].f = v, for a v that differs from the stored value
TamperField(k, f, v) ==
    /\ tamper.kind = "none"
    /\ k \in DOMAIN chain.entries
    /\ v # chain.entries[k][f]
    /\ chain' = [chain EXCEPT !.entries[k][f] = v]
    /\ tamper' = [kind |-> "field", k |-> k - 1, field |-> f]
    /\ last' = [op |-> "tamper"]
    /\ UNCHANGED <<orig, checkpoints, backend, files, saved, threads>>

\* The proof fields of chain.entries[k] rewritten at once
Rewrite(k, x, operation, y, timestamp, xy) ==
    /\ tamper.kind = "none"
    /\ k \in DOMAIN chain.entries
    /\ LET e == chain.entries[k]
       IN  <<x, operation, y, timestamp, xy>> # <<e.x, e.operation, e.y, e.timestamp, e.xy>>
    /\ chain' = [chain EXCEPT !.entries[k] =
                    [@ EXCEPT !.x = x, !.operation = operation, !.y = y,
                              !.timestamp = timestamp, !.xy = xy]]
    /\ tamper' = [kind |-> "rewrite", k |-> k - 1]
    /\ last' = [op |-> "tamper"]
    /\ UNCHANGED <<orig, checkpoints, backend, files, saved, threads>>

\* entries[i], entries[j] = entries[j], entries[i]
Swap(i, j) ==
    /\ tamper.kind = "none"
    /\ i \in DOMAIN chain.entries /\ j \in DOMAIN chain.entries /\ i < j
    /\ chain' = [chain EXCEPT !.entries = [@ EXCEPT ![i] = chain.entries[j],
                                                     ![j] = chain.entries[i]]]
    /\ tamper' = [kind |-> "swap", k |-> i - 1]
    /\ last' = [op |-> "tamper"]
    /\ UNCHANGED <<orig, checkpoints, backend, files, saved, threads>>

\* del entries[i], for an entry that is not the last
Omit(i) ==
    /\ tamper.kind = "none"
    /\ i \in DOMAIN chain.entries /\ i < Len(chain.entries)
    /\ chain' = [chain EXCEPT !.entries =
                    SubSeq(@, 1, i - 1) \o SubSeq(@, i + 1, Len(@))]
    /\ tamper' = [kind |-> "omit", k |-> i - 1]
    /\ last' = [op |-> "tamper"]
    /\ UNCHANGED <<orig, checkpoints, backend, files, saved, threads>>

----------------------------------------------------------------------------
(* Inputs *)

Operations == {"op_0", "op_1"}
Timestamps == {1, 2}
SecretState == Map([user |-> Str("bob"), password |-> Str("hunter2")])
YStates == {Null, EmptyMap, Map([n |-> Num(1)]), SecretState}
PrivateKeys == {"k1"}
PAY_BOB == "pay:bob"

\* The arguments of append: every operation and state unsigned, and one
\* operation with every timestamp, signed or not, with the optional arguments
AppendArgs ==
    [operation : Operations, x_state : {Null}, y_state : YStates,
     status : {"success"}, metadata : {Null}, timestamp : {1},
     private_key : {None}, signer_id : {None}]
    \cup
    [operation : {"op_0"}, x_state : {SecretState}, y_state : {SecretState},
     status : {"pending"}, metadata : {Map([user |-> Str("bob")])},
     timestamp : Timestamps, private_key : PrivateKeys \cup {None},
     signer_id : {"alice"}]

\* The appends of the tampering scenarios
TamperAppendArgs ==
    [operation : {"op_0"}, x_state : {Null},
     y_state : {Null, Map([n |-> Num(1)]), SecretState},
     status : {"success"}, metadata : {Null}, timestamp : {1},
     private_key : {None}, signer_id : {None}]

DoAppend(args) ==
    \E a \in args :
        XYChain_append(a.operation, a.x_state, a.y_state, a.status, a.metadata,
                       a.timestamp, a.private_key, a.signer_id, "returns None")

DoTamperField ==
    \E k \in 1 .. MaxLen, f \in ProofFields \cup OtherFields :
        \E v \in FieldValues(f, chain.entries) : TamperField(k, f, v)

DoRewrite ==
    \E k \in DOMAIN chain.entries :
        LET e == chain.entries[k]
        IN  \E x \in {e.x, DEADBEEF}, operation \in {e.operation, "HACKED"},
               y \in {e.y, hash_state(Map([n |-> Num(2)]))},
               timestamp \in {e.timestamp, 0} :
                \E xy \in {e.xy, compute_xy(x, operation, y, timestamp)} :
                    Rewrite(k, x, operation, y, timestamp, xy)

DoSwap == \E i \in 1 .. MaxLen, j \in 1 .. MaxLen : Swap(i, j)

DoOmit == \E i \in 1 .. MaxLen : Omit(i)

Init ==
    /\ chain \in [id : {"c1"}, name : {"default"}, entries : {<<>>},
                  auto_redact : BOOLEAN, auto_checkpoint : {FALSE},
                  checkpoint_interval : {20}, checkpoint_callback : {None}]
    /\ orig = <<>>
    /\ tamper = [kind |-> "none"]
    /\ last = [op |-> "new"]
    /\ checkpoints = <<>>
    /\ backend = "nacl"
    /\ files = <<>>
    /\ saved = <<>>
    /\ threads = <<>>

\* The tampering scenarios build their chain with auto_redact=False
InitTamper == Init /\ chain.auto_redact = FALSE

AppendAny == DoAppend(AppendArgs)

AppendPlain == DoAppend(TamperAppendArgs)

\* A single writer appending to a chain nobody tampers with
Next == AppendAny

Spec == Init /\ [][Next]_vars

\* Appends, one act of tampering, and serialization round trips
NextTamper ==
    \/ AppendPlain
    \/ DoTamperField
    \/ DoRewrite
    \/ DoSwap
    \/ DoOmit
    \/ RoundTrip

SpecTamper == InitTamper /\ [][NextTamper]_vars

\* The signing scenarios: the runtime has one of the packages or neither
InitSign ==
    /\ chain = [id |-> "c1", name |-> "default", entries |-> <<>>,
                auto_redact |-> FALSE, auto_checkpoint |-> FALSE,
                checkpoint_interval |-> 20, checkpoint_callback |-> None]
    /\ orig = <<>>
    /\ tamper = [kind |-> "none"]
    /\ last = [op |-> "new"]
    /\ checkpoints = <<>>
    /\ backend \in Backends \cup {None}
    /\ files = <<>>
    /\ saved = <<>>
    /\ threads = <<>>

\* Signed appends of an operation with a ":" in its label, and appends
\* without a key or with a key that is not a seed
SignAppendArgs ==
    [operation : {PAY_BOB}, x_state : {Null}, y_state : {Null},
     status : {"success"}, metadata : {Null}, timestamp : {1},
     private_key : {"k1"}, signer_id : {"alice"}]
    \cup
    [operation : {"op_0"}, x_state : {Null}, y_state : {Null},
     status : {"success"}, metadata : {Null}, timestamp : {1},
     private_key : {None, SHORT_KEY}, signer_id : {None}]

AppendSigned == DoAppend(SignAppendArgs)

\* One field of a signed or unsigned entry overwritten; a digest or proof
\* hash by a value no entry holds
SignTamperValues(f, entries) ==
    CASE f \in {"x", "y"} -> {DEADBEEF}
      [] f = "xy" -> {BOGUS_XY}
      [] OTHER -> FieldValues(f, entries)

DoTamperSigned ==
    \E k \in 1 .. MaxLen,
       f \in SignedFields \cup SignatureFields \cup {"timestamp", "status"} :
        \E v \in SignTamperValues(f, chain.entries) : TamperField(k, f, v)

\* x, operation, y and xy of one entry rewritten at once; the new x and
\* operation can be the old ones with the ":" between them moved
DoRewriteSigned ==
    \E k \in DOMAIN chain.entries :
        LET e == chain.entries[k]
        IN  \E x \in {e.x, e.x \o ":pay"}, operation \in {e.operation, "bob", "HACKED"},
               y \in {e.y, DEADBEEF} :
                \E xy \in {e.xy, compute_xy(x, operation, y, e.timestamp)} :
                    Rewrite(k, x, operation, y, e.timestamp, xy)

\* The chain is saved and loaded again by a runtime that has neither package
LoadWithoutBackend ==
    /\ backend # None
    /\ backend' = None
    /\ chain' = XYChain_from_dict(XYChain_to_dict(chain))
    /\ last' = [op |-> "from_dict", before |-> chain]
    /\ UNCHANGED <<orig, tamper, checkpoints, files, saved, threads>>

NextSign ==
    \/ AppendSigned
    \/ DoTamperSigned
    \/ DoRewriteSigned
    \/ LoadWithoutBackend

SpecSign == InitSign /\ [][NextSign]_vars

\* The checkpoint scenarios: every configuration of auto-checkpointing
CheckpointIntervals == {0, 1, 2, 20}

InitCheckpoint ==
    /\ chain \in [id : {"c1"}, name : {"default"}, entries : {<<>>},
                  auto_redact : {FALSE}, auto_checkpoint : BOOLEAN,
                  checkpoint_interval : CheckpointIntervals,
                  checkpoint_callback : {None, "on_checkpoint"}]
    /\ orig = <<>>
    /\ tamper = [kind |-> "none"]
    /\ last = [op |-> "new"]
    /\ checkpoints = <<>>
    /\ backend = "nacl"
    /\ files = <<>>
    /\ saved = <<>>
    /\ threads = <<>>

CheckpointAppendArgs ==
    [operation : Operations, x_state : {Null}, y_state : {Null},
     status : {"success"}, metadata : {Null}, timestamp : {1},
     private_key : {None}, signer_id : {None}]

\* An append, with a callback that returns, returns something, or raises
AppendWithCallback ==
    \E a \in CheckpointAppendArgs, outcome \in CallbackOutcomes :
        XYChain_append(a.operation, a.x_state, a.y_state, a.status, a.metadata,
                       a.timestamp, a.private_key, a.signer_id, outcome)

NextCheckpoint == AppendWithCallback

SpecCheckpoint == InitCheckpoint /\ [][NextCheckpoint]_vars

\* redact_state on its own: states that hold a map n levels down
Leaves ==
    {Map([password |-> Str("hunter2"), user |-> Str("bob")]),
     Map([API_KEY |-> Map([n |-> Num(1)])]),
     Map([user |-> Str("bob")])}

Wrappers == {"map", "list", "mixed"}

RECURSIVE Nest(_, _, _)
\* leaf wrapped n times, in maps, in lists, or in both by turns
Nest(leaf, n, wrapper) ==
    IF n = 0 THEN leaf
    ELSE IF wrapper = "map" \/ (wrapper = "mixed" /\ n % 2 = 0)
         THEN [map |-> [user |-> Nest(leaf, n - 1, wrapper)]]
         ELSE [list |-> <<Nest(leaf, n - 1, wrapper)>>]

\* A caller holds a state
InitRedact ==
    /\ chain = [id |-> "c1", name |-> "default", entries |-> <<>>,
                auto_redact |-> TRUE, auto_checkpoint |-> FALSE,
                checkpoint_interval |-> 20, checkpoint_callback |-> None]
    /\ orig = <<>>
    /\ tamper = [kind |-> "none"]
    /\ checkpoints = <<>>
    /\ backend = "nacl"
    /\ files = <<>>
    /\ saved = <<>>
    /\ threads = <<>>
    /\ \E leaf \in Leaves, n \in 0 .. MaxDepth, wrapper \in Wrappers :
           last = [op |-> "state", state |-> Nest(leaf, n, wrapper)]

\* redact_state(state)
RedactState ==
    /\ last.op = "state"
    /\ last' = [op |-> "redact_state", state |-> last.state,
                returned |-> redact_state(last.state, 0)]
    /\ UNCHANGED <<chain, orig, tamper, checkpoints, backend, files, saved, threads>>

NextRedact == RedactState

SpecRedact == InitRedact /\ [][NextRedact]_vars

\* BalanceProof.transfer on its own
Parties == {"alice", "bob"}
Balances == {0, 1000, 1004}
Amounts == {-10, 0, 6, 1000, 2000}
Ledgers == UNION {[holders -> Balances] : holders \in {{"alice"}, Parties}}

\* A caller holds the arguments of a transfer
InitBalance ==
    /\ chain = [id |-> "c1", name |-> "default", entries |-> <<>>,
                auto_redact |-> TRUE, auto_checkpoint |-> FALSE,
                checkpoint_interval |-> 20, checkpoint_callback |-> None]
    /\ orig = <<>>
    /\ tamper = [kind |-> "none"]
    /\ checkpoints = <<>>
    /\ backend = "nacl"
    /\ files = <<>>
    /\ saved = <<>>
    /\ threads = <<>>
    /\ \E balances \in Ledgers, sender \in Parties, recipient \in Parties,
          amount \in Amounts, timestamp \in {Null, Num(0), Num(1)} :
           last = [op |-> "args", balances |-> balances, sender |-> sender,
                   recipient |-> recipient, amount |-> amount,
                   timestamp |-> timestamp]

\* What time.time() returns at a call
Clocks == {7, 8}

\* BalanceProof.transfer(balances, sender, recipient, amount, timestamp=...),
\* called at time now, and called again with the same arguments at time later
Transfer ==
    /\ last.op = "args"
    /\ \E now \in Clocks, later \in Clocks :
           last' = [op |-> "transfer", args |-> last,
                    balances |-> CallerBalances(last.balances, last.sender, last.recipient),
                    result |-> transfer(last.balances, last.sender, last.recipient,
                                        last.amount, None, last.timestamp, now),
                    again |-> transfer(last.balances, last.sender, last.recipient,
                                       last.amount, None, last.timestamp, later)]
    /\ UNCHANGED <<chain, orig, tamper, checkpoints, backend, files, saved, threads>>

\* d = proof.to_dict() of a returned proof
ToDict ==
    /\ last.op = "transfer"
    /\ ~Raised(last.result)
    /\ last' = [op |-> "dict", proof |-> last.result.value,
                dict |-> BalanceProof_to_dict(last.result.value),
                tampered |-> None]
    /\ UNCHANGED <<chain, orig, tamper, checkpoints, backend, files, saved, threads>>

\* The values a tampered dict gets for a balance, and for x, y or xy
TamperedBalances == {0, 900}

\* d[f] = ... or d[f][party] = ... on the dict of a proof, once
TamperProof ==
    /\ last.op = "dict"
    /\ last.tampered = None
    /\ \/ \E f \in {"before", "after"}, party \in Parties, v \in TamperedBalances :
              /\ party \in DOMAIN last.dict[f]
              /\ last.dict[f][party] # v
              /\ last' = [last EXCEPT !.dict[f][party] = v, !.tampered = f]
       \/ \E f \in {"x", "y", "xy"} :
              last' = [last EXCEPT !.dict[f] = DEADBEEF, !.tampered = f]
    /\ UNCHANGED <<chain, orig, tamper, checkpoints, backend, files, saved, threads>>

NextBalance == Transfer \/ ToDict \/ TamperProof

SpecBalance == InitBalance /\ [][NextBalance]_vars

\* LocalStorage: chains are made, appended to, saved, loaded and deleted
ChainIds == {"c1", "c2"}
ChainNames == {"default", "ledger"}
MaxStored == 2

InitStorage ==
    /\ chain = [id |-> "c1", name |-> "default", entries |-> <<>>,
                auto_redact |-> TRUE, auto_checkpoint |-> FALSE,
                checkpoint_interval |-> 20, checkpoint_callback |-> None]
    /\ orig = <<>>
    /\ tamper = [kind |-> "none"]
    /\ last = [op |-> "new"]
    /\ checkpoints = <<>>
    /\ backend = "nacl"
    /\ files = <<>>
    /\ saved = <<>>
    /\ threads = <<>>

\* chain = XYChain(id=..., name=...)
NewChain ==
    /\ \E id \in ChainIds, name \in ChainNames :
           chain' = [id |-> id, name |-> name, entries |-> <<>>,
                     auto_redact |-> TRUE, auto_checkpoint |-> FALSE,
                     checkpoint_interval |-> 20, checkpoint_callback |-> None]
    /\ last' = [op |-> "new"]
    /\ orig' = <<>>
    /\ UNCHANGED <<tamper, checkpoints, backend, files, saved, threads>>

\* Appends whose metadata json can encode, and one whose metadata it cannot
StorageAppendArgs ==
    [operation : {"op_0"}, x_state : {Null}, y_state : {Map([n |-> Num(1)])},
     status : {"success"}, metadata : {Null, Map([when |-> NotJson])},
     timestamp : {1}, private_key : {None}, signer_id : {None}]

StorageAppend ==
    /\ Len(chain.entries) < MaxStored
    /\ DoAppend(StorageAppendArgs)

\* storage.save(chain)
Save ==
    /\ LET r == LocalStorage_save(files, chain)
       IN  /\ files' = r.files
           /\ saved' = IF Raised(r.outcome) THEN saved ELSE (chain.id :> chain) @@ saved
           /\ last' = [op |-> "save", id |-> chain.id, outcome |-> r.outcome,
                       files |-> files, saved |-> saved]
    /\ UNCHANGED <<chain, orig, tamper, checkpoints, backend, threads>>

\* chain = storage.load(chain_id)
Load ==
    /\ \E id \in ChainIds :
           LET r == LocalStorage_load(files, id)
           IN  /\ chain' = IF Raised(r) THEN chain ELSE r.value
               /\ orig' = IF Raised(r) THEN orig ELSE r.value.entries
               /\ last' = [op |-> "load", id |-> id, outcome |-> r,
                           files |-> files, saved |-> saved]
    /\ UNCHANGED <<tamper, checkpoints, backend, files, saved, threads>>

\* storage.delete(chain_id)
Delete ==
    /\ \E id \in ChainIds :
           LET r == LocalStorage_delete(files, id)
           IN  /\ files' = r.files
               /\ saved' = [i \in DOMAIN saved \ {id} |-> saved[i]]
               /\ last' = [op |-> "delete", id |-> id, outcome |-> Return(r.returned),
                           files |-> files, saved |-> saved]
    /\ UNCHANGED <<chain, orig, tamper, checkpoints, backend, threads>>

NextStorage == NewChain \/ StorageAppend \/ Save \/ Load \/ Delete

SpecStorage == InitStorage /\ [][NextStorage]_vars

\* Two threads appending to one chain.  An append is the steps of its code:
\* it takes x (lines 81-85), takes the index and creates the entry (88-103),
\* and adds the entry to the list (109); another thread can run between them.
\* threads.serialized says whether the callers hold a lock of theirs around
\* each call.
ThreadIds == {"t1", "t2"}

Idle == [pc |-> "idle"]

\* The threads inside append
Inside(th) == {t \in ThreadIds : th.at[t] # Idle}

\* Mutant: no caller waits for another
MayEnter_NoLock(th, t) == th.at[t] = Idle

\* A thread can call append when it is not inside one, and, where callers
\* serialize their calls, when no other thread is
MayEnter(th, t) ==
    /\ th.at[t] = Idle
    /\ th.serialized => Inside(th) = {}

InitRace ==
    /\ chain = [id |-> "c1", name |-> "default", entries |-> <<>>,
                auto_redact |-> FALSE, auto_checkpoint |-> FALSE,
                checkpoint_interval |-> 20, checkpoint_callback |-> None]
    /\ orig = <<>>
    /\ tamper = [kind |-> "none"]
    /\ last = [op |-> "new"]
    /\ checkpoints = <<>>
    /\ backend = "nacl"
    /\ files = <<>>
    /\ saved = <<>>
    /\ \E serialized \in BOOLEAN :
           threads = [serialized |-> serialized, at |-> [t \in ThreadIds |-> Idle]]

\* chain.append("op_0", y_state={"n": k}, timestamp=1) is entered
Call(t) ==
    /\ MayEnter(threads, t)
    /\ Len(chain.entries) + Cardinality(Inside(threads)) < MaxLen
    /\ \E k \in {1, 2} :
           threads' = [threads EXCEPT !.at[t] =
                          [pc |-> "x", y_state |-> Map([n |-> Num(k)])]]
    /\ last' = [op |-> "call", thread |-> t]
    /\ UNCHANGED <<chain, orig, tamper, checkpoints, backend, files, saved>>

\* lines 81-85: x = self.entries[-1].y, or GENESIS
TakeX(t) ==
    /\ threads.at[t].pc = "x"
    /\ threads' = [threads EXCEPT !.at[t] =
                       [pc |-> "index", y_state |-> threads.at[t].y_state,
                        x |-> PrevY(chain)]]
    /\ last' = [op |-> "x", thread |-> t]
    /\ UNCHANGED <<chain, orig, tamper, checkpoints, backend, files, saved>>

\* lines 88-103: index = len(self.entries); entry = XYEntry.create(...)
TakeIndex(t) ==
    /\ threads.at[t].pc = "index"
    /\ threads' = [threads EXCEPT !.at[t] =
                       [pc |-> "add",
                        entry |-> XYEntry_create(NextIndex(chain), "op_0", threads.at[t].x,
                                                 hash_state(threads.at[t].y_state), Null,
                                                 threads.at[t].y_state, "success", Null, 1)]]
    /\ last' = [op |-> "index", thread |-> t]
    /\ UNCHANGED <<chain, orig, tamper, checkpoints, backend, files, saved>>

\* line 109: self.entries.append(entry); no checkpoint is due, append returns
Add(t) ==
    /\ threads.at[t].pc = "add"
    /\ chain' = [chain EXCEPT !.entries = Append(chain.entries, threads.at[t].entry)]
    /\ orig' = chain'.entries
    /\ threads' = [threads EXCEPT !.at[t] = Idle]
    /\ last' = [op |-> "add", thread |-> t]
    /\ UNCHANGED <<tamper, checkpoints, backend, files, saved>>

NextRace == \E t \in ThreadIds : Call(t) \/ TakeX(t) \/ TakeIndex(t) \/ Add(t)

SpecRace == InitRace /\ [][NextRace]_vars

\* Two appends to equal chains, with states that differ under secret-named
\* keys only
SecretLeafPairs ==
    {<<Map([password |-> Str("hunter2"), user |-> Str("bob")]),
       Map([password |-> Str("swordfish"), user |-> Str("bob")])>>,
     <<Map([API_KEY |-> Str("k-1")]),
       Map([API_KEY |-> Map([n |-> Num(1)])])>>}

\* Two callers hold a state each
InitSecret ==
    /\ chain = [id |-> "c1", name |-> "default", entries |-> <<>>,
                auto_redact |-> TRUE, auto_checkpoint |-> FALSE,
                checkpoint_interval |-> 20, checkpoint_callback |-> None]
    /\ orig = <<>>
    /\ tamper = [kind |-> "none"]
    /\ checkpoints = <<>>
    /\ backend = "nacl"
    /\ files = <<>>
    /\ saved = <<>>
    /\ threads = <<>>
    /\ \E pair \in SecretLeafPairs, n \in 0 .. MaxDepth, wrapper \in Wrappers :
           last = [op |-> "states", a |-> Nest(pair[1], n, wrapper),
                   b |-> Nest(pair[2], n, wrapper)]

\* chain.append("op_0", y_state=a, timestamp=1) on the chain and
\* append("op_0", y_state=b, timestamp=1) on a chain equal to it, as far as
\* lines 73-78: y_state = redact_state(y_state)
RedactBoth ==
    /\ last.op = "states"
    /\ last' = [op |-> "redacted", a |-> last.a, b |-> last.b,
                first |-> IF chain.auto_redact THEN redact_state(last.a, 0) ELSE last.a,
                second |-> IF chain.auto_redact THEN redact_state(last.b, 0) ELSE last.b]
    /\ UNCHANGED <<chain, orig, tamper, checkpoints, backend, files, saved, threads>>

\* The two appends from line 80 on: the redacted state is hashed, the entry
\* is created and added, and append returns it
CreateBoth ==
    /\ last.op = "redacted"
    /\ LET first == XYEntry_create(NextIndex(chain), "op_0", PrevY(chain),
                                   hash_state(last.first), Null, last.first,
                                   "success", Null, 1)
           second == XYEntry_create(NextIndex(chain), "op_0", PrevY(chain),
                                    hash_state(last.second), Null, last.second,
                                    "success", Null, 1)
       IN  /\ chain' = [chain EXCEPT !.entries = Append(chain.entries, first)]
           /\ last' = [op |-> "appends", a |-> last.a, b |-> last.b,
                       first |-> first, second |-> second]
    /\ orig' = chain'.entries
    /\ UNCHANGED <<tamper, checkpoints, backend, files, saved, threads>>

NextSecret == RedactBoth \/ CreateBoth

SpecSecret == InitSecret /\ [][NextSecret]_vars

\* del chain.entries[n:]: the trailing entries of the chain are removed,
\* behind its back; tamper keeps the entries as they were
Truncate(n) ==
    /\ tamper.kind \in {"none", "field"}
    /\ n < Len(chain.entries)
    /\ chain' = [chain EXCEPT !.entries = SubSeq(@, 1, n)]
    /\ tamper' = [kind |-> "truncate", from |-> chain.entries]
    /\ last' = [op |-> "tamper"]
    /\ UNCHANGED <<orig, checkpoints, backend, files, saved, threads>>

DoTruncate == \E n \in 0 .. MaxLen : Truncate(n)

TruncateAppendArgs == {a \in TamperAppendArgs : a.y_state # SecretState}

AppendShort == DoAppend(TruncateAppendArgs)

\* entries[k].x = ... or entries[k].xy = ..., once
DoTamperLink ==
    \E k \in 1 .. MaxLen, f \in {"x", "xy"} :
        \E v \in FieldValues(f, chain.entries) : TamperField(k, f, v)

\* Appends, a field changed in place, and the tail of the chain cut off
NextTruncate == AppendShort \/ DoTamperLink \/ DoTruncate

SpecTruncate == InitTamper /\ [][NextTruncate]_vars

\* entries[k].signature = None, on any entry that carries a signature and
\* whatever was done to the chain before; tamper keeps the entries as they
\* were before the signature went
ClearSignature(k) ==
    /\ k \in DOMAIN chain.entries
    /\ chain.entries[k].signature # None
    /\ chain' = [chain EXCEPT !.entries[k].signature = None]
    /\ tamper' = [kind |-> "cleared", k |-> k - 1, before |-> chain.entries]
    /\ last' = [op |-> "tamper"]
    /\ UNCHANGED <<orig, checkpoints, backend, files, saved, threads>>

DoClearSignature == \E k \in 1 .. MaxLen : ClearSignature(k)

\* One field the signature covers, or signer_id or timestamp, overwritten
DoTamperCovered ==
    \E k \in 1 .. MaxLen, f \in {"y", "signer_id", "timestamp"} :
        \E v \in SignTamperValues(f, chain.entries) : TamperField(k, f, v)

\* Signed appends, one field overwritten, signatures removed
NextClear == AppendSigned \/ DoTamperCovered \/ DoClearSignature

SpecClear == InitSign /\ [][NextClear]_vars

----------------------------------------------------------------------------
(* Properties *)

Entries == chain.entries
Result == verify_chain(chain.entries)

\* Position i (1-based) passes both checks of verify_chain
Passes(entries, i) ==
    /\ entries[i].xy = compute_xy(entries[i].x, entries[i].operation,
                                  entries[i].y, entries[i].timestamp)
    /\ i = 1 => entries[i].x = GENESIS
    /\ i > 1 => entries[i].x = entries[i - 1].y

Min(S) == CHOOSE m \in S : \A n \in S : m <= n

\* The first position (0-based) at which two entry sequences differ
FirstDiff(a, b) ==
    Min({p \in 0 .. Len(a) : p = Len(a) \/ p >= Len(b) \/ a[p + 1] # b[p + 1]})

DistinctY(entries) ==
    \A i \in DOMAIN entries, j \in DOMAIN entries : i # j => entries[i].y # entries[j].y

\* C1: after any sequence of appends on a chain created empty, entries[0].x
\* is "GENESIS" and every later entry's x is its predecessor's y.
C1_ChainRule ==
    /\ Entries # <<>> => Entries[1].x = GENESIS
    /\ \A i \in 2 .. Len(Entries) : Entries[i].x = Entries[i - 1].y

C1_Witness ==
    /\ Len(Entries) = 3
    /\ Entries[2].x # Entries[3].x
    /\ last.op = "append"

\* C2: a chain built only by sequential appends verifies as (True, None).
C2_UntamperedVerifies == XYChain_verify(chain) = <<TRUE, None>>

C2_Witness ==
    /\ Len(Entries) = 3
    /\ chain.auto_redact
    /\ Entries[1].signature # None
    /\ Entries[2].signature = None
    /\ Entries[2].timestamp # Entries[3].timestamp
    /\ Entries[1].y_state # Null /\ Entries[2].y_state = Null

\* C3: overwriting exactly one of x, y, xy, operation, timestamp of entries[k]
\* of a valid chain makes verify_chain return (False, k).
C3_SingleFieldTamperLocalised ==
    (tamper.kind = "field" /\ tamper.field \in ProofFields)
        => Result = <<FALSE, tamper.k>>

C3_Witness ==
    /\ tamper.kind = "field" /\ tamper.field = "y" /\ tamper.k = 1
    /\ Len(Entries) = 3
    /\ Result = <<FALSE, 1>>

\* The rewritten entry fails one of the two checks made at its position: its
\* xy is not the proof of its fields, or its x is no longer the x it had.
RewriteShows ==
    LET e == Entries[tamper.k + 1]
    IN  ~verify_entry(e) \/ e.x # orig[tamper.k + 1].x

\* C4 as claimed: any rewrite of the proof fields of entries[k], also one
\* that recomputes xy to match, makes verify_chain return (False, k).
C4_Original_AnyRewriteLocalised ==
    tamper.kind = "rewrite" => Result = <<FALSE, tamper.k>>

\* C4 as amended: a rewrite of the proof fields of entries[k] makes
\* verify_chain return (False, k) exactly when the new xy is not compute_xy
\* of the new fields or x was changed; a rewrite that keeps x and recomputes
\* xy to match is not reported at k.
C4_RewriteLocalisedWhenInconsistent ==
    tamper.kind = "rewrite" => (Result = <<FALSE, tamper.k>> <=> RewriteShows)

C4_Witness ==
    /\ tamper.kind = "rewrite" /\ tamper.k = 1
    /\ verify_entry(Entries[2])
    /\ Entries[2].x # orig[2].x
    /\ Result = <<FALSE, 1>>

\* C5 as claimed: swapping two entries or omitting a non-final entry of a
\* valid chain, also one whose entries share a y, makes verify_chain return
\* (False, p), p the first position that differs from the original.
C5_Original_ReorderLocalised ==
    tamper.kind \in {"swap", "omit"} => Result = <<FALSE, FirstDiff(Entries, orig)>>

\* C5 as amended: the same for a valid chain whose y values are pairwise
\* distinct.
C5_ReorderLocalisedWhenYDistinct ==
    (tamper.kind \in {"swap", "omit"} /\ DistinctY(orig))
        => Result = <<FALSE, FirstDiff(Entries, orig)>>

C5_Witness ==
    /\ tamper.kind = "omit" /\ DistinctY(orig) /\ Len(orig) = 3
    /\ FirstDiff(Entries, orig) = 1
    /\ Result = <<FALSE, 1>>

\* C6 as claimed: changing any field of entries[k], index, status, metadata,
\* x_state, y_state and verified included, makes verify_chain return invalid.
C6_Original_AnyFieldDetected ==
    tamper.kind = "field" => Result[1] = FALSE

\* C6 as amended: changing one of x, operation, y, timestamp, xy of
\* entries[k] makes verify_chain return invalid; changing index, status,
\* metadata, x_state, y_state or verified does not.
C6_OnlyProofFieldsDetected ==
    tamper.kind = "field" => (Result[1] = FALSE <=> tamper.field \in ProofFields)

C6_Witness ==
    /\ tamper.kind = "field" /\ tamper.field = "timestamp"
    /\ Result[1] = FALSE

\* C7: verify_chain returns (True, None) iff every position passes both
\* checks, and otherwise (False, m) for the smallest failing position m.
C7_FirstViolationWins ==
    LET failing == {i \in DOMAIN Entries : ~Passes(Entries, i)}
    IN  Result = IF failing = {} THEN <<TRUE, None>> ELSE <<FALSE, Min(failing) - 1>>

C7_Witness ==
    /\ Len(Entries) = 3
    /\ Passes(Entries, 1) /\ ~Passes(Entries, 2) /\ ~Passes(Entries, 3)
    /\ Result = <<FALSE, 1>>

\* C8: root is None for an empty chain, entries[0].xy once there is an
\* entry, and an append to a non-empty chain leaves it as it was.
C8_RootFixed ==
    /\ Entries = <<>> => root(chain) = None
    /\ Entries # <<>> => root(chain) = Entries[1].xy
    /\ (last.op = "append" /\ last.before.entries # <<>>)
           => root(chain) = root(last.before)

C8_Witness ==
    /\ last.op = "append" /\ Len(Entries) = 3
    /\ root(chain) = root(last.before)
    /\ Entries[3].xy # Entries[1].xy

\* C9: entries[i].index = i at every position, and an append makes the chain
\* one longer and returns the entry now at the last position.
C9_IndexIsPosition ==
    /\ \A i \in DOMAIN Entries : Entries[i].index = i - 1
    /\ last.op = "append" =>
           /\ length(chain) = length(last.before) + 1
           /\ last.returned = Entries[Len(Entries)]

C9_Witness ==
    /\ last.op = "append" /\ Len(Entries) = 3
    /\ last.returned.index = 2

\* C10: XYChain.from_dict(c.to_dict()) has the id, name, length, head and
\* root of c and verifies to the same (valid, break_index), tampered or not.
C10_RoundTrip ==
    last.op = "from_dict" =>
        /\ chain.id = last.before.id
        /\ chain.name = last.before.name
        /\ length(chain) = length(last.before)
        /\ head(chain) = head(last.before)
        /\ root(chain) = root(last.before)
        /\ XYChain_verify(chain) = XYChain_verify(last.before)

C10_Witness ==
    /\ last.op = "from_dict"
    /\ tamper.kind = "field" /\ tamper.field = "xy" /\ tamper.k = 0
    /\ Len(Entries) = 2
    /\ XYChain_verify(chain) = <<FALSE, 0>>

----------------------------------------------------------------------------
(* Signatures *)

\* The entries that sit where append put them, with what append stored
Stored == DOMAIN chain.entries \cap DOMAIN orig

\* The fields a signature is checked against, and the signature itself
SameSigned(a, b) ==
    \A f \in SignedFields \cup {"signature", "public_key"} : a[f] = b[f]

SignedAppend == last.op = "append" /\ last.args.private_key # None

\* C11: an entry signed by sign_entry, directly or by append with a private
\* key, passes verify_signature, and keeps passing it for as long as its x,
\* operation, y, xy, signature and public_key are the ones stored at signing
\* (in a runtime that can verify at all: one with a backend, as the signing
\* runtime is).
C11_SignedEntryVerifies ==
    /\ (SignedAppend /\ last.raised = None)
           => verify_signature(last.returned) = Return(TRUE)
    /\ \A k \in Stored :
           (/\ backend # None
            /\ orig[k].signature # None
            /\ SameSigned(chain.entries[k], orig[k]))
               => verify_signature(chain.entries[k]) = Return(TRUE)

\* A signed entry whose timestamp, status or signer_id was changed afterwards
C11_Witness ==
    /\ tamper.kind = "field"
    /\ tamper.field \in {"timestamp", "status", "signer_id"}
    /\ orig[tamper.k + 1].signature # None
    /\ verify_signature(chain.entries[tamper.k + 1]) = Return(TRUE)

\* C12: for a signed entry whose signature and public_key are left as
\* stored, a change of any of x, operation, y, xy (one or several at once)
\* makes verify_signature return False (in a runtime with a backend).
C12_ChangedProofFieldsFailVerification ==
    \A k \in Stored :
        LET e == chain.entries[k]
            o == orig[k]
        IN  (/\ backend # None
             /\ o.signature # None
             /\ e.signature = o.signature /\ e.public_key = o.public_key
             /\ \E f \in SignedFields : e[f] # o[f])
                => verify_signature(e) = Return(FALSE)

\* C13: verify_signature returns False for every entry whose signature or
\* public_key is absent, whatever the runtime can import.
C13_UnsignedEntryIsFalse ==
    \A k \in DOMAIN chain.entries :
        LET e == chain.entries[k]
        IN  (e.signature = None \/ e.public_key = None)
                => verify_signature(e) = Return(FALSE)

\* Every verification call on the chain and its entries returns
AllVerificationsReturn ==
    /\ XYChain_verify(chain)[1] \in BOOLEAN
    /\ verify_chain(chain.entries)[1] \in BOOLEAN
    /\ \A k \in DOMAIN chain.entries : ~Raised(verify_signature(chain.entries[k]))
    /\ ~Raised(XYChain_verify_signatures(chain))

FailedSignatures(entries) ==
    {i \in DOMAIN entries :
        entries[i].signature # None /\ verify_signature(entries[i]) = Return(FALSE)}

\* C15: verify_signatures returns (False, i) for the smallest i such that
\* entries[i] carries a signature verify_signature returns False for, and
\* (True, None) when there is none; entries without a signature are skipped
\* and the links verify_chain checks play no part.  (Without a backend the
\* call returns only for a chain that has no signed entry.)
C15_FirstFailedSignature ==
    LET bad == FailedSignatures(chain.entries)
        expected == IF bad = {} THEN <<TRUE, None>> ELSE <<FALSE, Min(bad) - 1>>
        signed == {i \in DOMAIN chain.entries : chain.entries[i].signature # None}
    IN  (backend # None \/ signed = {})
            => XYChain_verify_signatures(chain) = Return(expected)

\* Three entries, the first without a signature and skipped, the second
\* with a signature that fails, on a chain whose links are intact
C15_Witness ==
    /\ Len(chain.entries) = 3
    /\ chain.entries[1].signature = None
    /\ chain.entries[3].signature # None
    /\ XYChain_verify(chain) = <<TRUE, None>>
    /\ XYChain_verify_signatures(chain) = Return(<<FALSE, 1>>)

\* C16: when signing fails inside append (no backend, or a private key the
\* backend rejects) the error reaches the caller and the chain is as it was.
C16_FailedSigningLeavesChain ==
    (SignedAppend /\ (backend = None \/ last.args.private_key \notin Seeds))
        => /\ last.raised = IF backend = None THEN "ImportError" ELSE "ValueError"
           /\ chain.entries = last.before.entries
           /\ length(chain) = length(last.before)
           /\ head(chain) = head(last.before)
           /\ root(chain) = root(last.before)

\* An append with a key, on a chain of two signed entries that has come to
\* a runtime without a backend
C16_Witness ==
    /\ SignedAppend
    /\ backend = None
    /\ last.raised = "ImportError"
    /\ length(chain) = 2
    /\ chain.entries[2].signature # None

----------------------------------------------------------------------------
(* Auto-checkpoint *)

IsMultiple(n, k) == \E q \in 0 .. n : n = q * k

\* The one call the claim describes for a chain of n entries
CheckpointCall(n) == [label |-> "auto-checkpoint-" \o ToString(n), length |-> n]

CheckpointsEnabled(c) == c.auto_checkpoint /\ c.checkpoint_callback # None

RECURSIVE CallsUpTo(_, _)
\* The calls due while a chain grows to n entries, oldest first
CallsUpTo(c, n) ==
    IF n = 0 THEN <<>>
    ELSE CallsUpTo(c, n - 1) \o
         (IF CheckpointsEnabled(c) /\ IsMultiple(n, c.checkpoint_interval)
          THEN <<CheckpointCall(n)>> ELSE <<>>)

\* C17: an append that adds an entry calls the checkpoint callback once,
\* with the label "auto-checkpoint-<new length>" and with the entry already
\* in the chain, exactly when auto_checkpoint is on, a callback is set and
\* the new length is a multiple of checkpoint_interval; no other append
\* calls it, and what the callback returns changes nothing.
C17_AutoCheckpoint ==
    /\ last.op = "append" =>
           /\ last.calls =
                  IF /\ length(chain) = length(last.before) + 1
                     /\ CheckpointsEnabled(chain)
                     /\ IsMultiple(length(chain), chain.checkpoint_interval)
                  THEN <<CheckpointCall(length(chain))>>
                  ELSE <<>>
           /\ last.raised = None => last.returned = chain.entries[length(chain)]
    /\ checkpoints = CallsUpTo(chain, length(chain))

\* Interval 2: the second append called the callback, the third did not
C17_Witness ==
    /\ chain.checkpoint_interval = 2
    /\ length(chain) = 3
    /\ last.op = "append" /\ last.calls = <<>>
    /\ checkpoints = <<CheckpointCall(2)>>

----------------------------------------------------------------------------
(* Redaction *)

\* redact_state(state), or None for a state that was not given
Redacted(state) == IF state = Null THEN Null ELSE redact_state(state, 0)

\* hash_state(state), or hash_state({}) for a state that was not given
HashOrEmpty(state) == IF state = Null THEN hash_state(EmptyMap) ELSE hash_state(state)

\* C18: with auto_redact on, the entry append makes holds redact_state of
\* the x_state and y_state given and its y is the hash of the redacted
\* y_state it holds (of {} when none was given), so that a state redaction
\* changes is neither hashed nor stored as given; with auto_redact off the
\* states are stored, and y_state hashed, as given.
C18_RedactionBeforeHashing ==
    /\ (last.op = "append" /\ last.raised = None) =>
           LET a == last.args
               e == last.returned
           IN  IF last.before.auto_redact
               THEN /\ e.x_state = Redacted(a.x_state)
                    /\ e.y_state = Redacted(a.y_state)
                    /\ e.y = HashOrEmpty(e.y_state)
                    /\ Redacted(a.y_state) # a.y_state
                           => e.y # hash_state(a.y_state) /\ e.y_state # a.y_state
                    /\ Redacted(a.x_state) # a.x_state => e.x_state # a.x_state
               ELSE /\ e.x_state = a.x_state
                    /\ e.y_state = a.y_state
                    /\ e.y = HashOrEmpty(a.y_state)
    /\ \A k \in DOMAIN chain.entries :
           LET e == chain.entries[k]
           IN  /\ e.y = HashOrEmpty(e.y_state)
               /\ chain.auto_redact =>
                      Redacted(e.x_state) = e.x_state /\ Redacted(e.y_state) = e.y_state

\* An append of a state with a password in it, to a chain that redacts
C18_Witness ==
    /\ last.op = "append" /\ last.raised = None
    /\ chain.auto_redact
    /\ last.args.y_state = SecretState
    /\ last.returned.y_state = Map([user |-> Str("bob"), password |-> Str(REDACTED)])
    /\ last.returned.y = hash_state(last.returned.y_state)

RECURSIVE SecretsRedacted(_, _, _)
\* Every secret-named key of a map of v holds the redaction marker, as far
\* as the maps down to level limit go; v itself is at level d
SecretsRedacted(v, d, limit) ==
    IF d > limit THEN TRUE
    ELSE IF DOMAIN v = {"map"}
         THEN \A k \in DOMAIN v.map :
                  IF _is_secret_key(k) THEN v.map[k] = [str |-> REDACTED]
                  ELSE SecretsRedacted(v.map[k], d + 1, limit)
    ELSE IF DOMAIN v = {"list"}
         THEN \A i \in DOMAIN v.list : SecretsRedacted(v.list[i], d + 1, limit)
    ELSE TRUE

RECURSIVE SameBelow(_, _, _, _)
\* out has the shape of in, and below level limit it is in itself; in and
\* out are at level d
SameBelow(in, out, d, limit) ==
    IF d > limit THEN out = in
    ELSE IF DOMAIN in = {"map"}
         THEN /\ DOMAIN out = {"map"}
              /\ DOMAIN out.map = DOMAIN in.map
              /\ \A k \in DOMAIN in.map :
                     _is_secret_key(k) \/ SameBelow(in.map[k], out.map[k], d + 1, limit)
    ELSE IF DOMAIN in = {"list"}
         THEN /\ DOMAIN out = {"list"}
              /\ DOMAIN out.list = DOMAIN in.list
              /\ \A i \in DOMAIN in.list :
                     SameBelow(in.list[i], out.list[i], d + 1, limit)
    ELSE TRUE

----------------------------------------------------------------------------
(* Balance proofs *)

\* C20: every proof BalanceProof.transfer returns for an accepted sender,
\* recipient and amount, the recipient new to the balances or equal to the
\* sender included, has sum(after) = sum(before), and is balanced.
C20_TransferConserves ==
    (last.op = "transfer" /\ ~Raised(last.result)) =>
        LET proof == last.result.value
        IN  /\ SumValues(proof.after) = SumValues(proof.before)
            /\ balanced(proof)

\* C21: verify_proof returns True for the unmodified to_dict() output of a
\* proof transfer created, and False for every dict that differs from it in
\* before, after, x, y or xy.
C21_VerifyProofDetectsTampering ==
    last.op = "dict" => (verify_proof(last.dict) <=> last.tampered = None)

\* C22: transfer raises KeyError when the sender is not in balances, else
\* ValueError when amount <= 0 or the sender's balance is less than amount,
\* and a call that raises returns no proof; the caller's balances map is
\* after the call what it was before, whether the call raised or returned
\* and whether or not the recipient was in the map.
C22_TransferValidatesAndKeepsBalances ==
    last.op = "transfer" =>
        LET a == last.args
        IN  /\ a.sender \notin DOMAIN a.balances => last.result = Raise("KeyError")
            /\ (/\ a.sender \in DOMAIN a.balances
                /\ (a.amount <= 0 \/ a.balances[a.sender] < a.amount))
                   => last.result = Raise("ValueError")
            /\ Raised(last.result) <=>
                   \/ a.sender \notin DOMAIN a.balances
                   \/ a.amount <= 0
                   \/ a.balances[a.sender] < a.amount
            /\ last.balances = a.balances

\* A transfer to a recipient new to the balances has returned a proof, and
\* one has raised ValueError.
C22_Witness ==
    /\ last.op = "transfer"
    /\ last.args.sender \in DOMAIN last.args.balances
    /\ last.args.recipient \notin DOMAIN last.args.balances
    /\ last.args.amount > last.args.balances[last.args.sender]
    /\ last.result = Raise("ValueError")

\* C23: two calls of transfer with the same balances, sender, recipient and
\* amount and the same supplied timestamp, 0 included, return proofs with
\* the same x, y and xy whatever the clock shows at each call, and the
\* timestamp of the proof is the supplied one.
C23_DeterministicGivenTimestamp ==
    (/\ last.op = "transfer"
     /\ last.args.timestamp # Null
     /\ ~Raised(last.result)) =>
        /\ ~Raised(last.again)
        /\ last.result.value.x = last.again.value.x
        /\ last.result.value.y = last.again.value.y
        /\ last.result.value.xy = last.again.value.xy
        /\ last.result.value.timestamp = last.args.timestamp.num

----------------------------------------------------------------------------
(* Storage *)

\* The name, length, head, root and verify result of a chain
Digest(c) ==
    [name |-> c.name, length |-> length(c), head |-> head(c), root |-> root(c),
     verify |-> XYChain_verify(c)]

\* The ids the summaries of list_chains carry
ListedIds(fs) ==
    {LocalStorage_list_chains(fs)[i].id : i \in DOMAIN LocalStorage_list_chains(fs)}

\* C24: after any sequence of saves, deletes and loads, exists(id) is True
\* iff a chain with that id was saved and not deleted since; load(id) of such
\* an id returns a chain with the name, length, head, root and verify result
\* the chain had at its most recent save; load of any other id raises
\* FileNotFoundError and leaves the directory as it was; delete returns True
\* iff the id existed; list_chains has exactly one summary for each existing
\* id and no other.
C24_StorageIsMapOfLastSaves ==
    /\ \A id \in ChainIds :
           /\ LocalStorage_exists(files, id) <=> id \in DOMAIN saved
           /\ id \in DOMAIN saved =>
                  /\ ~Raised(LocalStorage_load(files, id))
                  /\ Digest(LocalStorage_load(files, id).value) = Digest(saved[id])
           /\ id \notin DOMAIN saved =>
                  LocalStorage_load(files, id) = Raise("FileNotFoundError")
    /\ Len(LocalStorage_list_chains(files)) = Cardinality(DOMAIN saved)
    /\ ListedIds(files) = DOMAIN saved
    /\ last.op = "load" => files = last.files
    /\ last.op = "delete" => (last.outcome.value <=> last.id \in DOMAIN last.saved)

----------------------------------------------------------------------------
(* Frame of append *)

\* The configuration of a chain: everything but its entries
Configuration(c) ==
    [id |-> c.id, name |-> c.name, auto_redact |-> c.auto_redact,
     auto_checkpoint |-> c.auto_checkpoint,
     checkpoint_interval |-> c.checkpoint_interval,
     checkpoint_callback |-> c.checkpoint_callback]

\* The entries of c start with the entries of b, each as it was
KeepsEntries(b, c) ==
    /\ length(c) >= length(b)
    /\ \A i \in 1 .. length(b) : c.entries[i] = b.entries[i]

\* C25: an append, whether it returns or raises, leaves every entry that was
\* in the chain where it was and field for field as it was, and leaves the
\* id, the name and the configuration of the chain unchanged.
C25_AppendOnlyFrame ==
    last.op = "append" =>
        /\ KeepsEntries(last.before, chain)
        /\ Configuration(chain) = Configuration(last.before)

\* An append has added a third entry, signed, behind an unsigned one
C25_Witness ==
    /\ last.op = "append"
    /\ length(last.before) = 2
    /\ length(chain) = 3
    /\ chain.entries[3].signature # None
    /\ chain.entries[2].signature = None

\* C30: when the checkpoint callback is called and raises, or when
\* auto_checkpoint is on with a callback set and checkpoint_interval is 0,
\* append raises to its caller and returns nothing, and the new entry is in
\* the chain all the same: the length has grown by 1, the entries before it
\* are as they were, and head is the y of the new entry.
C30_CheckpointErrorKeepsEntry ==
    last.op = "append" =>
        /\ (last.calls # <<>> /\ last.outcome = "raises")
               => last.raised = "CallbackError"
        /\ (CheckpointsEnabled(last.before) /\ last.before.checkpoint_interval = 0)
               => last.raised = "ZeroDivisionError"
        /\ last.raised \in {"CallbackError", "ZeroDivisionError"} =>
               /\ last.returned = None
               /\ length(chain) = length(last.before) + 1
               /\ KeepsEntries(last.before, chain)
               /\ chain.entries[length(chain)].index = length(last.before)
               /\ chain.entries[length(chain)].x = head(last.before)
               /\ head(chain) = chain.entries[length(chain)].y

\* The callback raised at the second entry of a chain checkpointed every 2
C30_Witness ==
    /\ last.op = "append"
    /\ last.raised = "CallbackError"
    /\ chain.checkpoint_interval = 2
    /\ length(last.before) = 1
    /\ length(chain) = 2
    /\ head(chain) = chain.entries[2].y

----------------------------------------------------------------------------
(* Concurrent appends *)

\* index = position and x = the y before it, at every position
WellLinked(entries) ==
    \A i \in 1 .. Len(entries) :
        /\ entries[i].index = i - 1
        /\ entries[i].x = IF i = 1 THEN GENESIS ELSE entries[i - 1].y

\* C26: when the appends of two threads are serialized, every entry has
\* index = position and x = the y of the entry before it, so no two entries
\* share an index; the state the unserialized threads can reach, two entries
\* with one index and one x, is out of reach.
C26_SerializedAppendsStayLinked ==
    threads.serialized =>
        /\ WellLinked(chain.entries)
        /\ \A i, j \in 1 .. Len(chain.entries) :
               chain.entries[i].index = chain.entries[j].index => i = j

\* Unserialized, both threads took index 1 and x = entries[0].y before either
\* added its entry: entries 1 and 2 carry index 1 and the same x
C26_Witness ==
    /\ ~threads.serialized
    /\ Len(chain.entries) = 3
    /\ chain.entries[2].index = 1
    /\ chain.entries[3].index = 1
    /\ chain.entries[2].x = chain.entries[1].y
    /\ chain.entries[3].x = chain.entries[1].y
    /\ chain.entries[3].index # 2
    /\ chain.entries[2].y # chain.entries[3].y

----------------------------------------------------------------------------
(* Secrets and digests *)

RECURSIVE SameButSecrets(_, _, _, _)
\* a and b, d levels below the top of their states, are equal but for the
\* values under secret-named keys of maps at most limit levels down
SameButSecrets(a, b, d, limit) ==
    CASE /\ d <= limit
         /\ DOMAIN a = {"map"} /\ DOMAIN b = {"map"}
         /\ DOMAIN a.map = DOMAIN b.map ->
             \A k \in {j \in DOMAIN a.map : ~_is_secret_key(j)} :
                 SameButSecrets(a.map[k], b.map[k], d + 1, limit)
      [] /\ d <= limit
         /\ DOMAIN a = {"list"} /\ DOMAIN b = {"list"}
         /\ DOMAIN a.list = DOMAIN b.list ->
             \A i \in DOMAIN a.list :
                 SameButSecrets(a.list[i], b.list[i], d + 1, limit)
      [] OTHER -> a = b

SameDigests(e, f) == e.y = f.y /\ e.xy = f.xy /\ e.y_state = f.y_state

----------------------------------------------------------------------------
(* Truncation *)

\* C28: every prefix of an entry sequence verify_chain accepts is accepted,
\* the empty one included; so a chain whose trailing entries were removed
\* verifies as (True, None) whenever it did before the removal.
C28_PrefixesOfValidChainVerify ==
    /\ verify_chain(chain.entries) = <<TRUE, None>> =>
           \A n \in 0 .. Len(chain.entries) :
               verify_chain(SubSeq(chain.entries, 1, n)) = <<TRUE, None>>
    /\ (tamper.kind = "truncate" /\ verify_chain(tamper.from) = <<TRUE, None>>)
           => XYChain_verify(chain) = <<TRUE, None>>

\* Two of the three entries of a valid chain were removed, and it verifies
C28_Witness ==
    /\ tamper.kind = "truncate"
    /\ Len(tamper.from) = 3
    /\ verify_chain(tamper.from) = <<TRUE, None>>
    /\ Len(chain.entries) = 1
    /\ XYChain_verify(chain) = <<TRUE, None>>

----------------------------------------------------------------------------
(* Removed signatures *)

\* What verify_signatures reports for entries of which those in skip count
\* as unsigned
ExpectedSignatures(entries, skip) ==
    IF FailedSignatures(entries) \ skip = {} THEN <<TRUE, None>>
    ELSE <<FALSE, Min(FailedSignatures(entries) \ skip) - 1>>

\* C29: in a runtime with a signing backend, verify_signatures looks only at
\* the entries whose signature is set: once the signature of an entry is
\* removed, whether it verified or not, the chain gives what it gave before
\* with that entry passed over, so a chain whose every failing signature has
\* been removed gives (True, None); and a signed entry of which only
\* signer_id or timestamp was changed still has verify_signature True.
C29_ClearedSignatureIsSkipped ==
    backend # None =>
        /\ tamper.kind = "cleared" =>
               /\ XYChain_verify_signatures(chain)
                      = Return(ExpectedSignatures(tamper.before, {tamper.k + 1}))
               /\ FailedSignatures(tamper.before) \subseteq {tamper.k + 1}
                      => XYChain_verify_signatures(chain) = Return(<<TRUE, None>>)
        /\ (tamper.kind = "field" /\ tamper.field \in {"signer_id", "timestamp"}
               /\ orig[tamper.k + 1].signature # None)
               => verify_signature(chain.entries[tamper.k + 1]) = Return(TRUE)

\* The second of three signed entries was tampered with and failed; its
\* signature was removed, and the chain with two signed entries left gives
\* (True, None)
C29_Witness ==
    /\ backend # None
    /\ tamper.kind = "cleared"
    /\ tamper.k = 1
    /\ Len(chain.entries) = 3
    /\ XYChain_verify_signatures([chain EXCEPT !.entries = tamper.before])
           = Return(<<FALSE, 1>>)
    /\ chain.entries[1].signature # None
    /\ chain.entries[3].signature # None
    /\ XYChain_verify_signatures(chain) = Return(<<TRUE, None>>)

====
